---- MODULE Spec2Model ----
(***************************************************************************)
(* Model of the agent orchestration engine of medical_project_deploy:      *)
(* MCP_ChatBot (backend.py) driven through the in_q / out_q queue pair by   *)
(* the callers of frontend.py.                                              *)
(*                                                                         *)
(* A Python string is modelled as a sequence of tokens; a token is one      *)
(* character (" ", "a") or one whole literal ("quit", "(empty response)").  *)
(***************************************************************************)
EXTENDS Integers, Sequences, FiniteSets, TLC

VARIABLES
    config,               \* server names of server_config.json, in file order
    pc,                   \* position of the worker thread inside run_chatbot
    srvIdx,               \* connect_to_servers: index of the next server to connect
    exit_stack,           \* self.exit_stack: the contexts entered and not yet closed
    sessions,             \* self.sessions
    tool_to_session,      \* self.tool_to_session
    available_tools,      \* self.available_tools (list of tool names advertised)
    messages,             \* self.messages: the conversation history
    query,                \* run_chatbot: the message taken from in_q
    seen_tools,           \* process_query: Counter of requested tool names
    loop_idx,             \* process_query: round counter
    tool_calls,           \* process_query: tool requests of the current round
    callIdx,              \* process_query: position of the second for-loop in tool_calls
    tool_result_blocks,   \* process_query: results built so far in this round
    suppress_msg_needed,  \* process_query: a request of this round was suppressed
    result,               \* process_query: the returned text, or the raised error
    in_q,                 \* inbound queue
    out_q,                \* outbound queue
    callerPc,             \* position of each caller (UI session)
    got,                  \* what each caller last took from out_q
    appUp,                \* FALSE once a caller's shutdown called app.shutdown()
    bound,                \* what the environment may do in this run (fixed at Init)
    hist                  \* history variables (observation only, never read by the code)

vars == <<config, pc, srvIdx, exit_stack, sessions, tool_to_session, available_tools,
          messages, query, seen_tools, loop_idx, tool_calls, callIdx,
          tool_result_blocks, suppress_msg_needed, result, in_q, out_q,
          callerPc, got, appUp, bound, hist>>

registryVars == <<exit_stack, sessions, tool_to_session, available_tools>>
roundVars    == <<tool_calls, callIdx, tool_result_blocks, suppress_msg_needed>>
callerVars   == <<callerPc, got, appUp, bound>>

----------------------------------------------------------------------------
(* Bounds of the model *)

MaxServers  == 2   \* entries of mcpServers in server_config.json
MaxSubmits  == 3   \* messages the callers put on in_q during one run
MaxBatch    == 3   \* tool_use items in one model reply
OneSubmit   == 1   \* runs that explore one query in depth submit one message
OneCall     == 1   \* runs that explore the queue pair request one tool per reply
FairSubmits == 2   \* messages put on in_q in the runs checked for progress
MaxToolReqs == 6   \* tool_use items the model emits during one run
MaxFaults   == 1   \* failures (startup, model request, tool call, unknown tool) in one run

(* Program constants *)

MAX_TOOL_LOOPS == 6
SUPPRESS_AFTER == 2

\* more tool_use items than the loop can ever take in FairSubmits queries
FairToolReqs == (MAX_TOOL_LOOPS + 1) * OneCall * FairSubmits

----------------------------------------------------------------------------
(* Strings *)

Whitespace == {" "}

RECURSIVE LStrip(_)
LStrip(t) ==
    IF t = <<>> THEN t
    ELSE IF Head(t) \in Whitespace THEN LStrip(Tail(t)) ELSE t

RECURSIVE RStrip(_)
RStrip(t) ==
    IF t = <<>> THEN t
    ELSE IF t[Len(t)] \in Whitespace THEN RStrip(SubSeq(t, 1, Len(t) - 1)) ELSE t

\* str.strip()
Strip(t) == RStrip(LStrip(t))

RECURSIVE Join(_)
\* "".join(chunks)
Join(chunks) ==
    IF chunks = <<>> THEN <<>> ELSE Head(chunks) \o Join(Tail(chunks))

\* str.lower(), token by token
LowerTok(c) ==
    CASE c = "QUIT" -> "quit"
      [] c = "Quit" -> "quit"
      [] c = "A"    -> "a"
      [] OTHER      -> c

Lower(t) == [i \in 1..Len(t) |-> LowerTok(t[i])]

QUIT           == <<"quit">>
EXITING        == <<"Exiting chatbot...">>
EMPTY_RESPONSE == <<"(empty response)">>
EMPTY_TOOL_RESULT == <<"(empty tool result)">>
ANTI_CHURN     == <<"[anti-churn] Repeated search_drugs suppressed. Please either call get_drug_properties or summarize results.">>
STEERING       == <<"You already performed multiple searches. Do not call search_drugs again. If details are needed, call get_drug_properties; otherwise, write the final answer now.">>
DIRECTIVE      == <<"Stop calling tools. Summarize the findings from the tool results above in clear prose.">>

----------------------------------------------------------------------------
(* Tool providers *)

SEARCH == "search_drugs"
PROPS  == "get_drug_properties"
BOGUS  == "lookup_dose"     \* a name no provider exposes

\* the tools rxnorm_server.py exposes, in declaration order
RxnormTools == <<SEARCH, PROPS>>

\* names the model may put in a tool_use item
ToolNames == {SEARCH, PROPS, BOGUS}

\* the names it uses in the runs that explore the queue pair
BridgeNames == {SEARCH}

\* server_config.json: every entry launches the rxnorm server
ServerNames == <<"rxnorm", "rxnorm_b", "rxnorm_c">>
Configs == {SubSeq(ServerNames, 1, n) : n \in 1..MaxServers}

ToolsOf(server) == RxnormTools

NoSession == "none"

----------------------------------------------------------------------------
(* Model replies: response.content is a sequence of items *)

TextItem(t)      == [type |-> "text", text |-> t, id |-> 0, name |-> ""]
ToolUse(i, name) == [type |-> "tool_use", text |-> <<>>, id |-> i, name |-> name]

Segments == {<<" ">>, <<" ", "a", " ">>}

\* replies without tool_use: zero, one or two text items
TextReplies ==
    {<<>>} \cup {<<TextItem(s)>> : s \in Segments}
           \cup {<<TextItem(s), TextItem(t)>> : s \in Segments, t \in Segments}

\* the sequences of tool names a reply may request
NameSeqs(names, most) == UNION {[1..n -> names] : n \in 1..most}

\* tool_use items for the names ns, with fresh ids first, first+1, ...
ToolUses(ns, first) == [i \in 1..Len(ns) |-> ToolUse(first + i - 1, ns[i])]

\* the text item a reply holds in front of its tool_use items
Preamble == <<TextItem(<<"a", " ">>)>>

CountOf(ns, name) == Cardinality({i \in 1..Len(ns) : ns[i] = name})

----------------------------------------------------------------------------
(* Turns of self.messages *)

UserText(t)       == [role |-> "user", kind |-> "text", text |-> t, blocks |-> <<>>]
AssistantText(t)  == [role |-> "assistant", kind |-> "text", text |-> t, blocks |-> <<>>]
AssistantRaw(c)   == [role |-> "assistant", kind |-> "tool_use", text |-> <<>>, blocks |-> c]
ToolResultTurn(b) == [role |-> "user", kind |-> "tool_result", text |-> <<>>, blocks |-> b]

ToolResult(i, content, err) ==
    [type |-> "tool_result", tool_use_id |-> i, content |-> content, is_error |-> err]

\* lines 139-146: the tool_use items of a reply, in order
RECURSIVE ToolCallsOf(_)
ToolCallsOf(content) ==
    IF content = <<>> THEN <<>>
    ELSE IF Head(content).type = "tool_use"
         THEN <<[id |-> Head(content).id, name |-> Head(content).name]>>
                  \o ToolCallsOf(Tail(content))
         ELSE ToolCallsOf(Tail(content))

\* lines 139-146: the text of the text items of a reply, in order
RECURSIVE TextChunksOf(_)
TextChunksOf(content) ==
    IF content = <<>> THEN <<>>
    ELSE IF Head(content).type = "text"
         THEN <<Head(content).text>> \o TextChunksOf(Tail(content))
         ELSE TextChunksOf(Tail(content))

\* the final text without strip()
FinalTextUnstripped(content) ==
    LET t == Join(TextChunksOf(content))
    IN  IF t = <<>> THEN EMPTY_RESPONSE ELSE t

\* lines 150 and 216-217
FinalText(content) ==
    LET t == Strip(Join(TextChunksOf(content)))
    IN  IF t = <<>> THEN EMPTY_RESPONSE ELSE t

\* lines 159-160: seen_tools[call['name']] += 1 for every call of the round
RECURSIVE CountCalls(_, _)
CountCalls(seen, calls) ==
    IF calls = <<>> THEN seen
    ELSE CountCalls([seen EXCEPT ![Head(calls).name] = @ + 1], Tail(calls))

\* suppression from the second search_drugs request on
ShouldSuppressEarly(t_name, seen) ==
    t_name = SEARCH /\ seen[SEARCH] > SUPPRESS_AFTER - 1

\* suppression from the fourth search_drugs request on
ShouldSuppressLate(t_name, seen) ==
    t_name = SEARCH /\ seen[SEARCH] > SUPPRESS_AFTER + 1

\* a guard that counts every tool name, not search_drugs alone
ShouldSuppressAnyName(t_name, seen) ==
    seen[t_name] > SUPPRESS_AFTER

\* line 169
ShouldSuppress(t_name, seen) ==
    t_name = SEARCH /\ seen[SEARCH] > SUPPRESS_AFTER

----------------------------------------------------------------------------
(* History variables *)

HistInit ==
    [nextId   |-> 1,        \* next fresh tool_use id
     nextQid  |-> 1,        \* next submission number
     reqs     |-> 0,        \* tool_use items emitted so far
     faults   |-> 0,        \* failures injected so far
     taken    |-> <<>>,     \* submission numbers in the order run_chatbot took them
     outLog   |-> <<>>,     \* every message ever put on out_q, in order
     modelReqs |-> 0,       \* model requests of the current query (forced one included)
     forcedReqs |-> 0,      \* forced summary requests of the current query
     invoked  |-> <<>>,     \* tool_use ids handed to _call_tool_text in this query
     requested |-> <<>>,    \* tool calls of this query in emission order, with their round
     reply    |-> <<>>,     \* <<content>> of the latest model reply, until the answer is put
     modelFailed |-> {},    \* submission numbers whose query had a model request fail
     toolFailed |-> {},     \* tool_use ids whose session.call_tool raised
     start    |-> 0,        \* index in messages of the current query's user turn
     owner    |-> <<>>,     \* the caller of each submission, by submission number
     startup  |-> "none"]   \* how startup ended: none, ok, config, connect

InitWith(names, batch, submits, reqs) ==
    /\ bound = [names |-> names, batch |-> batch, submits |-> submits, reqs |-> reqs]
    /\ config \in Configs
    /\ pc = "start"
    /\ srvIdx = 1
    /\ exit_stack = <<>>
    /\ sessions = <<>>
    /\ tool_to_session = [n \in ToolNames |-> NoSession]
    /\ available_tools = <<>>
    /\ messages = <<>>
    /\ query = [qid |-> 0, text |-> <<>>]
    /\ seen_tools = [n \in ToolNames |-> 0]
    /\ loop_idx = 0
    /\ tool_calls = <<>>
    /\ callIdx = 0
    /\ tool_result_blocks = <<>>
    /\ suppress_msg_needed = FALSE
    /\ result = <<>>
    /\ in_q = <<>>
    /\ out_q = <<>>
    /\ callerPc = [c \in {"ui1", "ui2"} |-> "idle"]
    /\ got = [c \in {"ui1", "ui2"} |-> <<>>]
    /\ appUp = TRUE
    /\ hist = HistInit

\* one query explored in depth: replies of up to MaxBatch tool requests
Init == InitWith(ToolNames, MaxBatch, OneSubmit, MaxToolReqs)

\* the queue pair explored for progress: the model may request a tool in every reply
\* of every query (the code allows no more than FairToolReqs requests)
InitFair == InitWith(BridgeNames, OneCall, FairSubmits, FairToolReqs)

\* the queue pair explored in width: up to MaxSubmits messages from two callers
InitBridge == InitWith(BridgeNames, OneCall, MaxSubmits, MaxToolReqs)

----------------------------------------------------------------------------
(* Startup: run_chatbot -> connect_to_servers -> connect_to_server *)

FaultLeft == hist.faults < MaxFaults

\* lines 72-78: record every tool of the server under its name
RECURSIVE RegisterTools(_, _, _)
RegisterTools(reg, session, tools) ==
    IF tools = <<>> THEN reg
    ELSE RegisterTools(
            [map  |-> [reg.map EXCEPT ![Head(tools)] = session],
             list |-> Append(reg.list, Head(tools))],
            session, Tail(tools))

\* lines 49-52: server_config.json is read and parsed
LoadConfig ==
    /\ pc = "start"
    /\ pc' = "connect"
    /\ UNCHANGED <<config, srvIdx, registryVars, messages, query, seen_tools, loop_idx,
                   roundVars, result, in_q, out_q, callerVars, hist>>

\* lines 49-50: open() or json.load() raises; run_chatbot's finally runs next
LoadConfigFails ==
    /\ pc = "start"
    /\ FaultLeft
    /\ pc' = "closing"
    /\ hist' = [hist EXCEPT !.faults = @ + 1, !.startup = "config"]
    /\ UNCHANGED <<config, srvIdx, registryVars, messages, query, seen_tools, loop_idx,
                   roundVars, result, in_q, out_q, callerVars>>

Transport(server) == [server |-> server, ctx |-> "stdio_client"]
Session(server)   == [server |-> server, ctx |-> "ClientSession"]

\* lines 61-82, every await succeeding
ConnectToServer ==
    /\ pc = "connect"
    /\ srvIdx <= Len(config)
    /\ LET server == config[srvIdx]
           reg    == RegisterTools([map |-> tool_to_session, list |-> available_tools],
                                   server, ToolsOf(server))
       IN  /\ exit_stack' = exit_stack \o <<Transport(server), Session(server)>>
           /\ sessions' = Append(sessions, server)
           /\ tool_to_session' = reg.map
           /\ available_tools' = reg.list
    /\ srvIdx' = srvIdx + 1
    /\ pc' = IF srvIdx' > Len(config) THEN "ready" ELSE "connect"
    /\ hist' = [hist EXCEPT !.startup = IF srvIdx' > Len(config) THEN "ok" ELSE @]
    /\ UNCHANGED <<config, messages, query, seen_tools, loop_idx, roundVars, result,
                   in_q, out_q, callerVars>>

\* lines 64-71 raising: at stdio_client (65), at ClientSession (67), at initialize (68)
\* or at list_tools (71). Nothing catches it before run_chatbot's finally (239).
ConnectToServerFails ==
    /\ pc = "connect"
    /\ srvIdx <= Len(config)
    /\ FaultLeft
    /\ \E at \in {"stdio_client", "ClientSession", "initialize", "list_tools"} :
         LET server == config[srvIdx]
         IN  /\ exit_stack' = IF at = "stdio_client" THEN exit_stack
                              ELSE IF at = "ClientSession"
                              THEN Append(exit_stack, Transport(server))
                              ELSE exit_stack \o <<Transport(server), Session(server)>>
             /\ sessions' = IF at = "list_tools" THEN Append(sessions, server)
                            ELSE sessions
    /\ pc' = "closing"
    /\ hist' = [hist EXCEPT !.faults = @ + 1, !.startup = "connect"]
    /\ UNCHANGED <<config, srvIdx, tool_to_session, available_tools, messages, query,
                   seen_tools, loop_idx, roundVars, result, in_q, out_q, callerVars>>

----------------------------------------------------------------------------
(* run_chatbot: the query loop *)

Msg(qid, text) == [qid |-> qid, text |-> text]

\* a get() that takes the newest item
QueueGetNewest(q) == [item |-> q[Len(q)], rest |-> SubSeq(q, 1, Len(q) - 1)]

\* line 228: in_q.get()
QueueGet(q) == [item |-> Head(q), rest |-> Tail(q)]

\* lines 235, 238, 230: out_q.put(text)
QueuePut(q, m) == Append(q, m)

\* line 229
IsQuit(text) == Lower(text) = QUIT

\* lines 228-229: take the next inbound message
GetQuery ==
    /\ pc = "ready"
    /\ in_q /= <<>>
    /\ LET g == QueueGet(in_q)
       IN  /\ query' = g.item
           /\ in_q' = g.rest
           /\ pc' = IF IsQuit(g.item.text) THEN "quit_ack" ELSE "pq_begin"
           /\ hist' = [hist EXCEPT !.taken = Append(@, g.item.qid)]
    /\ UNCHANGED <<config, srvIdx, registryVars, messages, seen_tools, loop_idx,
                   roundVars, result, out_q, callerVars>>

\* the acknowledgement without the break: the loop goes on
PutAckNoBreak ==
    /\ pc = "quit_ack"
    /\ out_q' = QueuePut(out_q, Msg(query.qid, EXITING))
    /\ hist' = [hist EXCEPT !.outLog = Append(@, Msg(query.qid, EXITING))]
    /\ pc' = "ready"
    /\ UNCHANGED <<config, srvIdx, registryVars, messages, query, seen_tools, loop_idx,
                   roundVars, result, in_q, callerVars>>

\* leaving the loop without the acknowledgement
PutAckSkipped ==
    /\ pc = "quit_ack"
    /\ pc' = "closing"
    /\ UNCHANGED <<config, srvIdx, registryVars, messages, query, seen_tools, loop_idx,
                   roundVars, result, in_q, out_q, callerVars, hist>>

\* lines 230-231: acknowledge "quit" and leave the loop
PutAck ==
    /\ pc = "quit_ack"
    /\ out_q' = QueuePut(out_q, Msg(query.qid, EXITING))
    /\ hist' = [hist EXCEPT !.outLog = Append(@, Msg(query.qid, EXITING))]
    /\ pc' = "closing"
    /\ UNCHANGED <<config, srvIdx, registryVars, messages, query, seen_tools, loop_idx,
                   roundVars, result, in_q, callerVars>>

\* connections released only when the loop was left by "quit", not in a finally block
CloseResourcesAfterQuitOnly ==
    /\ pc = "closing"
    /\ exit_stack' = IF hist.startup = "ok" THEN <<>> ELSE exit_stack
    /\ pc' = "terminated"
    /\ UNCHANGED <<config, srvIdx, sessions, tool_to_session, available_tools, messages,
                   query, seen_tools, loop_idx, roundVars, result, in_q, out_q,
                   callerVars, hist>>

\* lines 239-242: finally: exit_stack.aclose(), then the thread ends
CloseResources ==
    /\ pc = "closing"
    /\ exit_stack' = <<>>
    /\ pc' = "terminated"
    /\ UNCHANGED <<config, srvIdx, sessions, tool_to_session, available_tools, messages,
                   query, seen_tools, loop_idx, roundVars, result, in_q, out_q,
                   callerVars, hist>>

\* line 235: the text process_query returned goes to out_q
PutResponse ==
    /\ pc = "put_response"
    /\ out_q' = QueuePut(out_q, Msg(query.qid, result))
    /\ hist' = [hist EXCEPT !.outLog = Append(@, Msg(query.qid, result)), !.reply = <<>>]
    /\ pc' = "ready"
    /\ UNCHANGED <<config, srvIdx, registryVars, messages, query, seen_tools, loop_idx,
                   roundVars, result, in_q, callerVars>>

ErrorText(e) == <<"[ERROR]: ">> \o e

\* the exception is not caught at line 236 and ends run_chatbot
PutErrorUncaught ==
    /\ pc = "put_error"
    /\ pc' = "closing"
    /\ UNCHANGED <<config, srvIdx, registryVars, messages, query, seen_tools, loop_idx,
                   roundVars, result, in_q, out_q, callerVars, hist>>

\* lines 236-238: the exception process_query raised becomes a labeled response
PutError ==
    /\ pc = "put_error"
    /\ out_q' = QueuePut(out_q, Msg(query.qid, ErrorText(result)))
    /\ hist' = [hist EXCEPT !.outLog = Append(@, Msg(query.qid, ErrorText(result))),
                            !.reply = <<>>]
    /\ pc' = "ready"
    /\ UNCHANGED <<config, srvIdx, registryVars, messages, query, seen_tools, loop_idx,
                   roundVars, result, in_q, callerVars>>

----------------------------------------------------------------------------
(* process_query *)

\* a query that starts its history afresh
ProcessQueryBeginFresh ==
    /\ pc = "pq_begin"
    /\ messages' = <<UserText(query.text)>>
    /\ seen_tools' = [n \in ToolNames |-> 0]
    /\ loop_idx' = 0
    /\ pc' = "ask"
    /\ hist' = [hist EXCEPT !.modelReqs = 0, !.forcedReqs = 0, !.invoked = <<>>,
                            !.requested = <<>>, !.reply = <<>>,
                            !.start = 1]
    /\ UNCHANGED <<config, srvIdx, registryVars, query, roundVars, result, in_q, out_q,
                   callerVars>>

\* a counter that lives on from one query to the next
ProcessQueryBeginKeepsCounter ==
    /\ pc = "pq_begin"
    /\ messages' = Append(messages, UserText(query.text))
    /\ loop_idx' = 0
    /\ pc' = "ask"
    /\ hist' = [hist EXCEPT !.modelReqs = 0, !.forcedReqs = 0, !.invoked = <<>>,
                            !.requested = <<>>, !.reply = <<>>,
                            !.start = Len(messages) + 1]
    /\ UNCHANGED <<config, srvIdx, registryVars, query, seen_tools, roundVars, result,
                   in_q, out_q, callerVars>>

\* lines 117-126: the user turn is appended, the counter and the round index start over
ProcessQueryBegin ==
    /\ pc = "pq_begin"
    /\ messages' = Append(messages, UserText(query.text))
    /\ seen_tools' = [n \in ToolNames |-> 0]
    /\ loop_idx' = 0
    /\ pc' = "ask"
    /\ hist' = [hist EXCEPT !.modelReqs = 0, !.forcedReqs = 0, !.invoked = <<>>,
                            !.requested = <<>>, !.reply = <<>>,
                            !.start = Len(messages) + 1]
    /\ UNCHANGED <<config, srvIdx, registryVars, query, roundVars, result, in_q, out_q,
                   callerVars>>

\* lines 149-153: the reply holds no tool_use
Finalize(content) ==
    /\ messages' = Append(messages, AssistantText(FinalText(content)))
    /\ result' = FinalText(content)
    /\ pc' = "put_response"
    /\ UNCHANGED <<seen_tools, roundVars>>

\* lines 155-164: the reply holds tool_use items
StartRound(content) ==
    /\ messages' = Append(messages, AssistantRaw(content))
    /\ seen_tools' = CountCalls(seen_tools, ToolCallsOf(content))
    /\ tool_calls' = ToolCallsOf(content)
    /\ tool_result_blocks' = <<>>
    /\ suppress_msg_needed' = FALSE
    /\ callIdx' = 1
    /\ pc' = "tools"
    /\ UNCHANGED result

\* lines 129-164 for the reply `content`
HandleReply(content) ==
    /\ loop_idx' = loop_idx + 1
    /\ IF ToolCallsOf(content) = <<>> THEN Finalize(content) ELSE StartRound(content)

\* lines 129-153: the model answers with text items only
ModelRepliesText ==
    /\ pc = "ask"
    /\ \E content \in TextReplies :
         /\ HandleReply(content)
         /\ hist' = [hist EXCEPT !.modelReqs = @ + 1, !.reply = <<content>>]
    /\ UNCHANGED <<config, srvIdx, registryVars, query, in_q, out_q, callerVars>>

\* lines 129-164: the model answers with tool_use items (after optional text)
ModelRepliesTools ==
    /\ pc = "ask"
    /\ \E ns \in NameSeqs(bound.names, bound.batch) :
         /\ hist.reqs + Len(ns) <= bound.reqs
         /\ hist.faults + CountOf(ns, BOGUS) <= MaxFaults
         /\ HandleReply(Preamble \o ToolUses(ns, hist.nextId))
         /\ hist' = [hist EXCEPT !.modelReqs = @ + 1,
                                 !.nextId = @ + Len(ns),
                                 !.reqs = @ + Len(ns),
                                 !.faults = @ + CountOf(ns, BOGUS),
                                 !.reply = <<Preamble \o ToolUses(ns, hist.nextId)>>,
                                 !.requested = @ \o
                                     [i \in 1..Len(ns) |->
                                        [id |-> hist.nextId + i - 1, name |-> ns[i],
                                         round |-> loop_idx + 1]]]
    /\ UNCHANGED <<config, srvIdx, registryVars, query, in_q, out_q, callerVars>>

MODEL_ERROR == <<"model request failed">>

\* lines 129-135: messages.create raises; the exception leaves process_query
ModelFails ==
    /\ pc = "ask"
    /\ FaultLeft
    /\ loop_idx' = loop_idx + 1
    /\ result' = MODEL_ERROR
    /\ pc' = "put_error"
    /\ hist' = [hist EXCEPT !.modelReqs = @ + 1, !.faults = @ + 1,
                            !.modelFailed = @ \cup {query.qid}]
    /\ UNCHANGED <<config, srvIdx, registryVars, messages, query, seen_tools, roundVars,
                   in_q, out_q, callerVars>>

\* lines 92-103: the text parts of a tool result joined by newlines
RECURSIVE FlattenParts(_)
FlattenParts(parts) ==
    IF parts = <<>> THEN <<>>
    ELSE IF Tail(parts) = <<>> THEN Head(parts)
    ELSE Head(parts) \o <<"\n">> \o FlattenParts(Tail(parts))

Flatten(parts) ==
    IF FlattenParts(parts) = <<>> THEN EMPTY_TOOL_RESULT ELSE FlattenParts(parts)

\* what session.call_tool returns for a tool of the rxnorm server
ToolPayload(name) == <<<<"{json}">>>>

UnknownToolText(name)   == <<"[tool error] Unknown tool: ", name>>
ToolErrorText(name, e)  == <<"[tool error] ", name, ": ", e>>

\* lines 85-106: _call_tool_text; `raises` says whether session.call_tool raises
CallToolText(name, raises) ==
    IF tool_to_session[name] = NoSession THEN UnknownToolText(name)
    ELSE IF raises THEN ToolErrorText(name, "call failed")
    ELSE Flatten(ToolPayload(name))

\* lines 166-187: the loop moves to the next call, or on to line 190
NextCall ==
    /\ callIdx' = callIdx + 1
    /\ pc' = IF callIdx + 1 > Len(tool_calls) THEN "post" ELSE "tools"

CurrentCall == tool_calls[callIdx]

\* lines 169-179: the call is answered without invoking anything
SuppressCall ==
    /\ pc = "tools"
    /\ ShouldSuppress(CurrentCall.name, seen_tools)
    /\ tool_result_blocks' =
           Append(tool_result_blocks, ToolResult(CurrentCall.id, ANTI_CHURN, TRUE))
    /\ suppress_msg_needed' = TRUE
    /\ NextCall
    /\ UNCHANGED <<config, srvIdx, registryVars, messages, query, seen_tools, loop_idx,
                   tool_calls, result, in_q, out_q, callerVars, hist>>

\* lines 180-187 for the outcome `raises` of session.call_tool
Invoke(raises) ==
    /\ tool_result_blocks' =
           Append(tool_result_blocks,
                  ToolResult(CurrentCall.id, CallToolText(CurrentCall.name, raises), FALSE))
    /\ NextCall
    /\ UNCHANGED <<messages, result, suppress_msg_needed, tool_calls, loop_idx>>

\* lines 180-187: the tool is invoked and answers (or is unknown)
InvokeTool ==
    /\ pc = "tools"
    /\ ~ShouldSuppress(CurrentCall.name, seen_tools)
    /\ Invoke(FALSE)
    /\ hist' = [hist EXCEPT !.invoked = Append(@, CurrentCall.id)]
    /\ UNCHANGED <<config, srvIdx, registryVars, query, seen_tools, in_q, out_q,
                   callerVars>>

\* _call_tool_text without its try/except: the exception leaves process_query
InvokeToolFailsRaising ==
    /\ pc = "tools"
    /\ ~ShouldSuppress(CurrentCall.name, seen_tools)
    /\ tool_to_session[CurrentCall.name] /= NoSession
    /\ FaultLeft
    /\ result' = <<"call failed">>
    /\ pc' = "put_error"
    /\ hist' = [hist EXCEPT !.invoked = Append(@, CurrentCall.id), !.faults = @ + 1,
                            !.toolFailed = @ \cup {CurrentCall.id}]
    /\ UNCHANGED <<config, srvIdx, registryVars, messages, query, seen_tools, loop_idx,
                   roundVars, in_q, out_q, callerVars>>

\* lines 180-187 with session.call_tool raising inside _call_tool_text
InvokeToolFails ==
    /\ pc = "tools"
    /\ ~ShouldSuppress(CurrentCall.name, seen_tools)
    /\ tool_to_session[CurrentCall.name] /= NoSession
    /\ FaultLeft
    /\ Invoke(TRUE)
    /\ hist' = [hist EXCEPT !.invoked = Append(@, CurrentCall.id), !.faults = @ + 1,
                            !.toolFailed = @ \cup {CurrentCall.id}]
    /\ UNCHANGED <<config, srvIdx, registryVars, query, seen_tools, in_q, out_q,
                   callerVars>>

\* one steering turn for every suppressed request of the round
PostTurnsSteeringPerCall(blocks, suppressed, exhausted) ==
    <<ToolResultTurn(blocks)>>
        \o [k \in 1..Cardinality({i \in 1..Len(blocks) : blocks[i].content = ANTI_CHURN})
                |-> UserText(STEERING)]
        \o (IF exhausted THEN <<UserText(DIRECTIVE)>> ELSE <<>>)

\* the steering text injected before the tool results
PostTurnsSteeringFirst(blocks, suppressed, exhausted) ==
    (IF suppressed THEN <<UserText(STEERING)>> ELSE <<>>)
        \o <<ToolResultTurn(blocks)>>
        \o (IF exhausted THEN <<UserText(DIRECTIVE)>> ELSE <<>>)

\* lines 189-209: the turns appended after the round's calls
PostTurns(blocks, suppressed, exhausted) ==
    <<ToolResultTurn(blocks)>>
        \o (IF suppressed THEN <<UserText(STEERING)>> ELSE <<>>)
        \o (IF exhausted THEN <<UserText(DIRECTIVE)>> ELSE <<>>)

\* the safety stop one round late
BudgetExhaustedLate(idx) == idx > MAX_TOOL_LOOPS

\* a loop whose round budget never runs out
BudgetExhaustedNever(idx) == FALSE

\* line 203
BudgetExhausted(idx) == idx >= MAX_TOOL_LOOPS

\* lines 189-209: post the results, steer, and go round again or force the summary
PostResults ==
    /\ pc = "post"
    /\ messages' = messages \o PostTurns(tool_result_blocks, suppress_msg_needed,
                                         BudgetExhausted(loop_idx))
    /\ pc' = IF BudgetExhausted(loop_idx) THEN "final_ask" ELSE "ask"
    /\ UNCHANGED <<config, srvIdx, registryVars, query, seen_tools, loop_idx, roundVars,
                   result, in_q, out_q, callerVars, hist>>

\* replies to the forced summary request: text only, or text and tool_use mixed
ForcedReplies(first) ==
    TextReplies \cup {pre \o ToolUses(<<SEARCH>>, first) : pre \in {<<>>, Preamble}}

\* a forced summary whose reply is recorded as it came when it holds tool requests
ForcedSummaryRaw ==
    /\ pc = "final_ask"
    /\ \E content \in ForcedReplies(hist.nextId) :
         /\ messages' = Append(messages, IF ToolCallsOf(content) = <<>>
                                         THEN AssistantText(FinalText(content))
                                         ELSE AssistantRaw(content))
         /\ result' = FinalText(content)
         /\ hist' = [hist EXCEPT !.modelReqs = @ + 1, !.forcedReqs = @ + 1,
                                 !.reply = <<content>>,
                                 !.nextId = @ + Len(ToolCallsOf(content))]
    /\ pc' = "put_response"
    /\ UNCHANGED <<config, srvIdx, registryVars, query, seen_tools, loop_idx, roundVars,
                   in_q, out_q, callerVars>>

\* lines 210-219: the forced summary request; only its text is used
ForcedSummary ==
    /\ pc = "final_ask"
    /\ \E content \in ForcedReplies(hist.nextId) :
         /\ messages' = Append(messages, AssistantText(FinalText(content)))
         /\ result' = FinalText(content)
         /\ hist' = [hist EXCEPT !.modelReqs = @ + 1, !.forcedReqs = @ + 1,
                                 !.reply = <<content>>,
                                 !.nextId = @ + Len(ToolCallsOf(content))]
    /\ pc' = "put_response"
    /\ UNCHANGED <<config, srvIdx, registryVars, query, seen_tools, loop_idx, roundVars,
                   in_q, out_q, callerVars>>

\* lines 210-215: the forced summary request raises
ForcedSummaryFails ==
    /\ pc = "final_ask"
    /\ FaultLeft
    /\ result' = MODEL_ERROR
    /\ pc' = "put_error"
    /\ hist' = [hist EXCEPT !.modelReqs = @ + 1, !.forcedReqs = @ + 1,
                            !.faults = @ + 1, !.modelFailed = @ \cup {query.qid}]
    /\ UNCHANGED <<config, srvIdx, registryVars, messages, query, seen_tools, loop_idx,
                   roundVars, in_q, out_q, callerVars>>

----------------------------------------------------------------------------
(* Callers: frontend.py ask_query and shutdown_app *)

Callers == {"ui1", "ui2"}

QueryTexts == {<<"a">>, <<"Quit">>}

CanSubmit == appUp /\ hist.nextQid <= bound.submits

\* frontend.py 113-123: the query is put on in_q
AskQuery(c) ==
    /\ callerPc[c] = "idle"
    /\ CanSubmit
    /\ \E q \in QueryTexts : in_q' = QueuePut(in_q, Msg(hist.nextQid, q))
    /\ callerPc' = [callerPc EXCEPT ![c] = "await"]
    /\ hist' = [hist EXCEPT !.nextQid = @ + 1, !.owner = Append(@, c)]
    /\ UNCHANGED <<config, bound, pc, srvIdx, registryVars, messages, query, seen_tools,
                   loop_idx, roundVars, result, out_q, got, appUp>>

\* frontend.py 126-129: out_q.get() returns
ReceiveResponse(c) ==
    /\ callerPc[c] = "await"
    /\ out_q /= <<>>
    /\ got' = [got EXCEPT ![c] = QueueGet(out_q).item]
    /\ out_q' = QueueGet(out_q).rest
    /\ callerPc' = [callerPc EXCEPT ![c] = "idle"]
    /\ UNCHANGED <<config, bound, pc, srvIdx, registryVars, messages, query, seen_tools,
                   loop_idx, roundVars, result, in_q, appUp, hist>>

\* frontend.py 137-138: in_q.put("quit")
ShutdownApp(c) ==
    /\ callerPc[c] = "idle"
    /\ CanSubmit
    /\ in_q' = QueuePut(in_q, Msg(hist.nextQid, QUIT))
    /\ callerPc' = [callerPc EXCEPT ![c] = "quit_wait"]
    /\ hist' = [hist EXCEPT !.nextQid = @ + 1, !.owner = Append(@, c)]
    /\ UNCHANGED <<config, bound, pc, srvIdx, registryVars, messages, query, seen_tools,
                   loop_idx, roundVars, result, out_q, got, appUp>>

\* frontend.py 139-143: out_q.get(timeout=5) returns a message, then app.shutdown()
ShutdownGet(c) ==
    /\ callerPc[c] = "quit_wait"
    /\ out_q /= <<>>
    /\ got' = [got EXCEPT ![c] = QueueGet(out_q).item]
    /\ out_q' = QueueGet(out_q).rest
    /\ callerPc' = [callerPc EXCEPT ![c] = "done"]
    /\ appUp' = FALSE
    /\ UNCHANGED <<config, bound, pc, srvIdx, registryVars, messages, query, seen_tools,
                   loop_idx, roundVars, result, in_q, hist>>

\* a get() without a timeout: the wait never gives up
ShutdownTimeoutNever(c) ==
    /\ FALSE
    /\ UNCHANGED vars

\* frontend.py 139-143: the 5 s pass with out_q empty, then app.shutdown()
ShutdownTimeout(c) ==
    /\ callerPc[c] = "quit_wait"
    /\ out_q = <<>>
    /\ callerPc' = [callerPc EXCEPT ![c] = "done"]
    /\ appUp' = FALSE
    /\ UNCHANGED <<config, bound, pc, srvIdx, registryVars, messages, query, seen_tools,
                   loop_idx, roundVars, result, in_q, out_q, got, hist>>

----------------------------------------------------------------------------

Worker ==
    \/ LoadConfig
    \/ LoadConfigFails
    \/ ConnectToServer
    \/ ConnectToServerFails
    \/ GetQuery
    \/ PutAck
    \/ CloseResources
    \/ ProcessQueryBegin
    \/ ModelRepliesText
    \/ ModelRepliesTools
    \/ ModelFails
    \/ SuppressCall
    \/ InvokeTool
    \/ InvokeToolFails
    \/ PostResults
    \/ ForcedSummary
    \/ ForcedSummaryFails
    \/ PutResponse
    \/ PutError

Caller ==
    \E c \in Callers :
        \/ AskQuery(c)
        \/ ReceiveResponse(c)
        \/ ShutdownApp(c)
        \/ ShutdownGet(c)
        \/ ShutdownTimeout(c)

Next == Worker \/ Caller

Spec == Init /\ [][Next]_vars

BridgeSpec == InitBridge /\ [][Next]_vars

\* The worker thread keeps running: asyncio.run drives run_chatbot until it returns,
\* and every awaited model request, tool call and queue operation is taken to return.
\* Nothing is assumed of the callers.
FairSpec == InitFair /\ [][Next]_vars /\ WF_vars(Worker)

\* The timed wait of a caller that asked for shutdown ends (frontend.py 139-143):
\* get(timeout=5) returns a message or gives up when the time is over. Nothing is assumed of the worker, which
\* may stop anywhere (a model request or tool call that never returns, a dead thread).
ShutdownFairSpec ==
    /\ InitFair
    /\ [][Next]_vars
    /\ \A c \in Callers : WF_vars(ShutdownGet(c) \/ ShutdownTimeout(c))

----------------------------------------------------------------------------
(* Observations used by the properties *)

InQuery == pc \in {"pq_begin", "ask", "tools", "post", "final_ask",
                   "put_response", "put_error"}

Range(f) == {f[i] : i \in DOMAIN f}

\* every tool_result block built so far: posted ones and those of the round in progress
AllBlocks ==
    UNION {Range(messages[i].blocks) : i \in {j \in 1..Len(messages) :
                                               messages[j].kind = "tool_result"}}
        \cup Range(tool_result_blocks)

SuppressedIds == {b.tool_use_id : b \in {x \in AllBlocks : x.is_error /\ x.content = ANTI_CHURN}}
InvokedIds    == Range(hist.invoked)

BlockOf(id) == CHOOSE b \in AllBlocks : b.tool_use_id = id

IdsOf(items) == [i \in 1..Len(items) |-> items[i].id]
ResultIdsOf(blocks) == [i \in 1..Len(blocks) |-> blocks[i].tool_use_id]

IsError(m) == Len(m.text) > 0 /\ m.text[1] = "[ERROR]: "

----------------------------------------------------------------------------
(* C1: in the history every assistant turn that holds tool requests is followed,
   in the very next turn, by one tool-result batch whose tool_use_ids are the
   requested ids in request order; the turn after the batch is no second
   batch; and the only time such a turn is last in the history is while its
   round's calls are being answered, never when a model request is made. *)
C1_ResultsFollowRequests ==
    \A i \in 1..Len(messages) :
        messages[i].kind = "tool_use" =>
            IF i = Len(messages)
            THEN pc \in {"tools", "post"}
            ELSE /\ messages[i + 1].kind = "tool_result"
                 /\ ResultIdsOf(messages[i + 1].blocks)
                        = IdsOf(ToolCallsOf(messages[i].blocks))
                 /\ i + 2 <= Len(messages) => messages[i + 2].kind /= "tool_result"

\* a posted batch that answers a suppressed request and an unknown tool together
C1_Witness ==
    \E i \in 1..Len(messages) :
        /\ messages[i].kind = "tool_result"
        /\ Len(messages[i].blocks) >= 2
        /\ \E b \in Range(messages[i].blocks) : b.content = ANTI_CHURN
        /\ \E b \in Range(messages[i].blocks) : b.content = UnknownToolText(BOGUS)
        /\ pc = "ask"

----------------------------------------------------------------------------
(* C2 *)

\* how many of the query's requests up to position j name the tool of request j
RankOf(j) ==
    Cardinality({k \in 1..j : hist.requested[k].name = hist.requested[j].name})

\* requests for search_drugs emitted up to the end of the round of request j
SearchesThroughRound(j) ==
    Cardinality({k \in 1..Len(hist.requested) :
                    /\ hist.requested[k].name = SEARCH
                    /\ hist.requested[k].round <= hist.requested[j].round})

----------------------------------------------------------------------------
(* C3: a query makes at most MAX_TOOL_LOOPS model requests inside the loop (one
   per round); the forced summary is entered only after the reply of round
   MAX_TOOL_LOOPS held tool requests, and it makes exactly one more request:
   never more than MAX_TOOL_LOOPS + 1 requests for one query. *)
C3_RoundBudget ==
    /\ loop_idx <= MAX_TOOL_LOOPS
    /\ hist.modelReqs = loop_idx + hist.forcedReqs
    /\ hist.forcedReqs <= 1
    /\ hist.modelReqs <= MAX_TOOL_LOOPS + 1
    /\ (pc = "final_ask" \/ hist.forcedReqs = 1) =>
           /\ loop_idx = MAX_TOOL_LOOPS
           /\ tool_calls /= <<>>
           /\ \E j \in 1..Len(hist.requested) :
                  hist.requested[j].round = MAX_TOOL_LOOPS
    /\ pc = "final_ask" => hist.forcedReqs = 0

\* the forced summary request was made: seven requests for one query
C3_Witness ==
    /\ pc = "put_response"
    /\ hist.forcedReqs = 1
    /\ hist.modelReqs = MAX_TOOL_LOOPS + 1

----------------------------------------------------------------------------
(* C4 *)

AllBlank(t) == \A i \in 1..Len(t) : t[i] \in Whitespace

\* r is t without its leading and trailing whitespace
IsStripOf(r, t) ==
    \E a \in 0..Len(t), b \in 0..Len(t) :
        /\ a + b <= Len(t)
        /\ \A i \in 1..a : t[i] \in Whitespace
        /\ \A i \in (Len(t) - b + 1)..Len(t) : t[i] \in Whitespace
        /\ r = SubSeq(t, a + 1, Len(t) - b)
        /\ r /= <<>>
        /\ r[1] \notin Whitespace
        /\ r[Len(r)] \notin Whitespace

\* the texts of the items of a text-only reply, one after the other
TextOf(content) == Join([i \in 1..Len(content) |-> content[i].text])

(* C4: when the first reply of a query holds no tool request, that one model
   request is the query's only one, no tool is invoked and nothing is
   suppressed, and the text returned (and recorded as the assistant turn) is the
   reply's text segments concatenated and stripped, or "(empty response)" when
   that is blank. *)
C4_TextOnlyFirstReply ==
    (/\ hist.reply /= <<>>
     /\ hist.modelReqs = 1
     /\ hist.forcedReqs = 0
     /\ \A i \in 1..Len(hist.reply[1]) : hist.reply[1][i].type = "text")
    => /\ pc = "put_response"
       /\ loop_idx = 1
       /\ hist.invoked = <<>>
       /\ hist.requested = <<>>
       /\ messages[Len(messages)] = AssistantText(result)
       /\ messages[Len(messages) - 1] = UserText(query.text)
       /\ IF AllBlank(TextOf(hist.reply[1]))
          THEN result = EMPTY_RESPONSE
          ELSE IsStripOf(result, TextOf(hist.reply[1]))

\* a first reply of two text segments whose concatenation keeps its inner blanks
C4_Witness ==
    /\ pc = "put_response"
    /\ hist.modelReqs = 1
    /\ hist.reply /= <<>>
    /\ Len(hist.reply[1]) = 2
    /\ result = <<"a", " ", " ", "a">>

\* a blank first reply answered with the placeholder
C4_WitnessBlank ==
    /\ pc = "put_response"
    /\ hist.modelReqs = 1
    /\ hist.reply = <<<<TextItem(<<" ">>)>>>>
    /\ result = EMPTY_RESPONSE

----------------------------------------------------------------------------
(* C9: _call_tool_text never raises into the loop. Every request handed to it
   gets a tool-result entry: "[tool error] Unknown tool: ..." when no session
   owns the name, "[tool error] name: ..." when the provider call raised; and
   the query is answered with an "[ERROR]: ..." response only when one of its
   model requests failed, never because of a tool. *)
C9_InvokerNeverRaises ==
    /\ \A j \in 1..Len(hist.requested) :
          LET r == hist.requested[j]
          IN  r.id \in InvokedIds =>
                /\ \E b \in AllBlocks : b.tool_use_id = r.id
                /\ ~BlockOf(r.id).is_error
                /\ tool_to_session[r.name] = NoSession
                       => BlockOf(r.id).content = UnknownToolText(r.name)
                /\ r.id \in hist.toolFailed
                       => BlockOf(r.id).content = ToolErrorText(r.name, "call failed")
                /\ (tool_to_session[r.name] /= NoSession /\ r.id \notin hist.toolFailed)
                       => BlockOf(r.id).content = Flatten(ToolPayload(r.name))
    /\ pc = "put_error" => query.qid \in hist.modelFailed
    /\ \A k \in 1..Len(hist.outLog) :
          IsError(hist.outLog[k]) => hist.outLog[k].qid \in hist.modelFailed

\* a query in which a provider call raised is answered with an ordinary text
C9_Witness ==
    /\ hist.toolFailed /= {}
    /\ \E j \in 1..Len(hist.requested) : hist.requested[j].id \in hist.toolFailed
    /\ hist.outLog /= <<>>
    /\ hist.outLog[Len(hist.outLog)].qid = query.qid
    /\ ~IsError(hist.outLog[Len(hist.outLog)])

----------------------------------------------------------------------------
(* C5: run_chatbot handles the inbound messages one at a time in submission
   order: it takes them in the order they were put, it is inside process_query
   for a message only when every earlier message taken has its response on
   out_q already, and the k-th message ever put on out_q answers the k-th
   message taken from in_q. *)
C5_OneAtATimeInOrder ==
    /\ \A k \in 1..Len(hist.taken) : hist.taken[k] = k
    /\ \A k \in 1..Len(in_q) : in_q[k].qid = Len(hist.taken) + k
    /\ Len(hist.outLog) <= Len(hist.taken)
    /\ Len(hist.taken) <= Len(hist.outLog) + 1
    /\ \A k \in 1..Len(hist.outLog) : hist.outLog[k].qid = hist.taken[k]
    /\ (InQuery \/ pc = "quit_ack") =>
           /\ Len(hist.outLog) = Len(hist.taken) - 1
           /\ query.qid = hist.taken[Len(hist.taken)]
    /\ pc = "ready" => Len(hist.outLog) = Len(hist.taken)

\* the third query is being processed while the first two have been answered
C5_Witness ==
    /\ pc = "tools"
    /\ Len(hist.taken) = 3
    /\ Len(hist.outLog) = 2
    /\ ~IsError(hist.outLog[1])
    /\ IsError(hist.outLog[2])

----------------------------------------------------------------------------
(* C7: a model request that fails (in any round, or the forced summary request)
   gives the caller exactly one "[ERROR]: ..." response for that query and for
   no other; the worker goes back to waiting on in_q, and leaves its loop only
   for a "quit" message or a failed startup. *)
C7_ModelFailureIsOneResponse ==
    /\ \A q \in hist.modelFailed :
          LET answers == {k \in 1..Len(hist.outLog) : hist.outLog[k].qid = q}
          IN  /\ Cardinality(answers) <= 1
              /\ \A k \in answers : hist.outLog[k].text = ErrorText(MODEL_ERROR)
              /\ answers = {} <=> (pc = "put_error" /\ query.qid = q)
    /\ \A k \in 1..Len(hist.outLog) :
          IsError(hist.outLog[k]) => hist.outLog[k].qid \in hist.modelFailed
    /\ pc = "put_error" => query.qid \in hist.modelFailed
    /\ pc \in {"quit_ack", "closing", "terminated"} =>
          \/ hist.startup \in {"config", "connect"}
          \/ IsQuit(query.text)

\* after a failed query the next one is answered with an ordinary text
C7_Witness ==
    /\ Len(hist.outLog) = 2
    /\ IsError(hist.outLog[1])
    /\ hist.outLog[2].text = <<"a", " ", " ", "a">>
    /\ pc = "ready"

\* the failed model request was the forced summary request
C7_WitnessForced ==
    /\ pc = "ready"
    /\ hist.forcedReqs = 1
    /\ hist.outLog /= <<>>
    /\ IsError(hist.outLog[Len(hist.outLog)])

----------------------------------------------------------------------------
(* C6 *)

\* a "quit" (in any letter case) waits on in_q or has been taken by the worker
QuitSubmitted ==
    \/ \E k \in 1..Len(in_q) : Lower(in_q[k].text) = QUIT
    \/ (Len(hist.taken) > 0 /\ Lower(query.text) = QUIT)

AckPut == \E k \in 1..Len(hist.outLog) : hist.outLog[k].text = EXITING

ShutDown == AckPut /\ exit_stack = <<>> /\ pc = "terminated"

StartupFailed == hist.startup \in {"config", "connect"}

(* C6 as claimed: in every reachable engine state a submitted "quit" results in
   the acknowledgement on out_q and in every provider connection closed. Read
   on the runs whose worker thread has ended, where nothing more can be put:
   if a "quit" was submitted, the acknowledgement is on record. *)
C6_AsClaimed == (pc = "terminated" /\ QuitSubmitted) => ShutDown

(* C6 amended: a "quit" submitted to an engine whose startup completed leads to
   the acknowledgement "Exiting chatbot..." on out_q and then to every provider
   connection closed; an engine whose startup failed (server_config.json
   unreadable, or a provider that raised while connecting) has already left
   run_chatbot and never acknowledges a "quit". *)
C6_QuitAfterStartup ==
    /\ (QuitSubmitted /\ hist.startup = "ok") ~> ShutDown
    /\ [](StartupFailed => ~AckPut /\ hist.taken = <<>>)

\* the acknowledgement is out and the connections of two servers are closed,
\* with a query answered before the "quit"
C6_Witness ==
    /\ ShutDown
    /\ Len(config) = 2
    /\ Len(hist.outLog) = 2
    /\ Lower(query.text) = QUIT

----------------------------------------------------------------------------
(* C8 as claimed: a provider that fails to connect, initialize or list its
   tools is skipped; the worker goes on to the ready state and does not end
   because of it. *)
C8_AsClaimed ==
    hist.startup = "connect" => pc \notin {"closing", "terminated"}

----------------------------------------------------------------------------
(* C10 as claimed: the descriptor list advertised to the model holds at most
   one descriptor per tool name, whatever was registered. *)
C10_AsClaimed ==
    \A i, j \in 1..Len(available_tools) :
        available_tools[i] = available_tools[j] => i = j

----------------------------------------------------------------------------
(* C11 *)

Answered(q) == \E k \in 1..Len(hist.outLog) : hist.outLog[k].qid = q

ResponsesTo(q) == {k \in 1..Len(hist.outLog) : hist.outLog[k].qid = q}

(* C11: every query's tool-call loop terminates. While each model request and
   each tool invocation returns (the worker keeps taking steps), a query
   handed to process_query leads to a response for that query on out_q,
   whatever the model replies, a tool request in every reply included; the
   loop never enters a round beyond MAX_TOOL_LOOPS; and no query ever has more
   than one response on out_q. *)
C11_QueriesTerminate ==
    /\ \A q \in 1..FairSubmits : (InQuery /\ query.qid = q) ~> Answered(q)
    /\ [](\A j \in 1..Len(hist.requested) : hist.requested[j].round <= MAX_TOOL_LOOPS)
    /\ [](\A q \in 1..FairSubmits : Cardinality(ResponsesTo(q)) <= 1)

\* a query that asked for a tool in each of its MAX_TOOL_LOOPS rounds is answered
\* through the forced summary
C11_Witness ==
    /\ pc = "ready"
    /\ Answered(query.qid)
    /\ hist.forcedReqs = 1
    /\ Len(hist.requested) = MAX_TOOL_LOOPS
    /\ \E i \in 1..Len(messages) : messages[i] = UserText(DIRECTIVE)
    /\ ~IsError(hist.outLog[Len(hist.outLog)])

----------------------------------------------------------------------------
(* C12 *)

\* requests of the current query that name n
RequestsFor(n) == {j \in 1..Len(hist.requested) : hist.requested[j].name = n}

Answers(id) == {b \in AllBlocks : b.tool_use_id = id}

(* C12: the repetition counter belongs to one query. While a query is being
   processed the counter of each tool name equals the number of requests for
   that name made in this query, whatever earlier queries requested; a request
   is suppressed only when this query alone has asked for search_drugs more
   than twice by the end of the request's round, and a request answered while
   this query has asked for it at most twice was invoked. *)
C12_CounterPerQuery ==
    (InQuery /\ pc /= "pq_begin") =>
        /\ \A n \in ToolNames : seen_tools[n] = Cardinality(RequestsFor(n))
        /\ \A j \in 1..Len(hist.requested) :
               LET id == hist.requested[j].id IN
               /\ id \in SuppressedIds => SearchesThroughRound(j) > SUPPRESS_AFTER
               /\ (Answers(id) /= {} /\ SearchesThroughRound(j) <= SUPPRESS_AFTER)
                      => id \in InvokedIds /\ id \notin SuppressedIds

\* a query's first search_drugs request is invoked although an earlier query had a
\* request suppressed
C12_Witness ==
    /\ InQuery
    /\ Len(hist.taken) >= 2
    /\ hist.requested /= <<>>
    /\ hist.requested[1].name = SEARCH
    /\ hist.requested[1].id \in InvokedIds
    /\ \E b \in AllBlocks : /\ b.content = ANTI_CHURN
                            /\ b.tool_use_id < hist.requested[1].id

----------------------------------------------------------------------------
(* C13 *)

IsPrefix(s, t) == Len(s) <= Len(t) /\ SubSeq(t, 1, Len(s)) = s

(* C13: the conversation history is append-only for the lifetime of the engine.
   Every step of the program, in any sequence of queries (answered, ended by
   the forced summary, or failed with a model error), leaves the history it
   found as a prefix of the history it leaves: no turn is removed, reordered
   or modified, and a query starts from the history the previous one left. *)
C13_HistoryAppendOnly == [][IsPrefix(messages, messages')]_vars

\* the history holds the turns of three queries in submission order, the first of
\* which failed with a model error and left only its user turn
C13_Witness ==
    /\ pc = "ready"
    /\ Len(hist.outLog) = 3
    /\ IsError(hist.outLog[1])
    /\ ~IsError(hist.outLog[2])
    /\ ~IsError(hist.outLog[3])
    /\ Len(messages) >= 5
    /\ messages[1] = UserText(<<"a">>)
    /\ messages[2] = UserText(<<"a">>)
    /\ \E i \in 1..Len(messages) : messages[i].kind = "tool_result"

----------------------------------------------------------------------------
(* C14 as claimed: with several callers on the one queue pair, the message a
   caller takes from out_q after putting its query is the response to its own
   submission, never the response to another caller's query and never the
   acknowledgement of another caller's "quit". *)
C14_AsClaimed ==
    \A c \in Callers : got[c] /= <<>> => hist.owner[got[c].qid] = c

----------------------------------------------------------------------------
(* C15 *)

\* the batch at position i answers at least one suppressed request
HasSuppressed(i) == \E b \in Range(messages[i].blocks) : b.content = ANTI_CHURN

IsSteering(i) == i \in 1..Len(messages) /\ messages[i] = UserText(STEERING)

(* C15: a round's steering turn is in the history exactly when a request of
   that round was suppressed. The turn directly after a tool-result batch is
   the steering turn if and only if the batch holds a suppressed request; one
   steering turn is never followed by another, however many requests of the
   round were suppressed; and a steering turn stands nowhere else: never
   directly after an assistant tool-request turn, always directly after the
   batch of its round. *)
C15_SteeringAfterBatch ==
    \A i \in 1..Len(messages) :
        /\ messages[i].kind = "tool_result" => (IsSteering(i + 1) <=> HasSuppressed(i))
        /\ IsSteering(i) =>
               /\ i > 2
               /\ messages[i - 1].kind = "tool_result"
               /\ HasSuppressed(i - 1)
               /\ messages[i - 2].kind = "tool_use"
               /\ ~IsSteering(i + 1)
        /\ messages[i].kind = "tool_use" => ~IsSteering(i + 1)

\* two requests of one round were suppressed and one steering turn follows the
\* batch; the next round, with nothing suppressed, has none
C15_Witness ==
    \E i \in 1..Len(messages) :
        /\ messages[i].kind = "tool_result"
        /\ Cardinality({k \in 1..Len(messages[i].blocks) :
                            messages[i].blocks[k].content = ANTI_CHURN}) >= 2
        /\ IsSteering(i + 1)
        /\ i + 3 <= Len(messages)
        /\ messages[i + 2].kind = "tool_use"
        /\ messages[i + 3].kind = "tool_result"
        /\ ~HasSuppressed(i + 3)
        /\ pc = "put_response"

----------------------------------------------------------------------------
(* C16 *)

\* positions of the directive turns appended for the current query
DirectivesInQuery ==
    {i \in hist.start..Len(messages) : messages[i] = UserText(DIRECTIVE)}

\* ids of the tool requests a reply holds
RequestIdsIn(content) ==
    {content[k].id : k \in {j \in 1..Len(content) : content[j].type = "tool_use"}}

(* C16: the forced exit. When the forced summary request is about to be made,
   the last turn is the query's one directive turn, and it stands directly
   after the last round's tool-result batch or after the steering turn that
   follows that batch. When process_query returns through the forced exit, it
   made that one request after the loop's MAX_TOOL_LOOPS, the directive is
   still the query's only one and is the turn before the last, no tool request
   of the forced reply was invoked, answered or recorded in a tool-request
   turn, and the returned text is the reply's text segments concatenated and
   stripped, or "(empty response)". Whenever process_query returns, the last
   turn of the history is the text-only assistant turn holding the returned
   text. *)
C16_ForcedExit ==
    LET n == Len(messages) IN
    /\ pc = "put_response" => n > 0 /\ messages[n] = AssistantText(result)
    /\ pc = "final_ask" =>
           /\ n > 2
           /\ DirectivesInQuery = {n}
           /\ \/ messages[n - 1].kind = "tool_result"
              \/ IsSteering(n - 1) /\ messages[n - 2].kind = "tool_result"
    /\ (pc = "put_response" /\ hist.forcedReqs = 1) =>
           LET reply == hist.reply[1] IN
           /\ DirectivesInQuery = {n - 1}
           /\ hist.modelReqs = MAX_TOOL_LOOPS + 1
           /\ \A id \in RequestIdsIn(reply) :
                  /\ id \notin InvokedIds
                  /\ Answers(id) = {}
                  /\ \A i \in 1..n : messages[i].kind = "tool_use" =>
                         id \notin RequestIdsIn(messages[i].blocks)
           /\ IF AllBlank(TextOf(reply))
              THEN result = EMPTY_RESPONSE
              ELSE IsStripOf(result, TextOf(reply))

\* the forced reply held text and a tool request, and its stripped text alone was
\* recorded and returned; the last round had a suppressed request, so the
\* directive stands after the steering turn
C16_Witness ==
    /\ pc = "put_response"
    /\ hist.forcedReqs = 1
    /\ RequestIdsIn(hist.reply[1]) /= {}
    /\ result = <<"a">>
    /\ IsSteering(Len(messages) - 2)

\* the forced reply held nothing but a tool request: the placeholder is returned
C16_WitnessPlaceholder ==
    /\ pc = "put_response"
    /\ hist.forcedReqs = 1
    /\ RequestIdsIn(hist.reply[1]) /= {}
    /\ result = EMPTY_RESPONSE

----------------------------------------------------------------------------
(* C17 *)

\* positions of the acknowledgement among the messages put on out_q
AckPositions == {k \in 1..Len(hist.outLog) : hist.outLog[k].text = EXITING}

\* every provider connection opened at startup is still on the exit stack
ConnectionsOpen ==
    /\ sessions /= <<>>
    /\ \A s \in Range(sessions) :
           Transport(s) \in Range(exit_stack) /\ Session(s) \in Range(exit_stack)

(* C17: the order of a shutdown by "quit". When the worker has taken a "quit"
   and not yet acknowledged it, every message taken before it has its response
   on out_q and the provider connections are open; once the acknowledgement
   is put it is the only one and the last message ever put, the "quit" is the
   last message ever taken, and the worker is closing or has ended; the
   connections are still open while it is closing and are released when it
   has ended, so after a completed startup they are never released before
   the acknowledgement is out. *)
C17_QuitOrder ==
    /\ pc = "quit_ack" =>
           /\ ~AckPut
           /\ ConnectionsOpen
           /\ \A k \in 1..(Len(hist.taken) - 1) :
                  /\ k <= Len(hist.outLog)
                  /\ hist.outLog[k].qid = hist.taken[k]
                  /\ hist.taken[k] < query.qid
    /\ AckPut =>
           /\ AckPositions = {Len(hist.outLog)}
           /\ hist.outLog[Len(hist.outLog)].qid = query.qid
           /\ Len(hist.taken) = Len(hist.outLog)
           /\ hist.taken[Len(hist.taken)] = query.qid
           /\ IsQuit(query.text)
           /\ pc \in {"closing", "terminated"}
    /\ (pc = "closing" /\ hist.startup = "ok") => AckPut /\ ConnectionsOpen
    /\ pc = "terminated" => exit_stack = <<>>
    /\ (hist.startup = "ok" /\ exit_stack = <<>>) => AckPut /\ pc = "terminated"

\* the worker ended on a "quit" submitted after a query: the query was
\* answered first, the acknowledgement is the last message out, the connections are
\* released, and a message queued behind the "quit" stays on in_q
C17_Witness ==
    /\ pc = "terminated"
    /\ hist.outLog /= <<>>
    /\ AckPositions = {2}
    /\ exit_stack = <<>>
    /\ in_q /= <<>>

----------------------------------------------------------------------------
(* C18: a caller that asked for shutdown is never blocked forever. With
   nothing assumed of the worker (stuck in a model request or a tool
   invocation, or dead), a caller waiting for the acknowledgement leaves the
   wait, with the acknowledgement or without it, and takes the application
   down; a caller is past the wait only with the application shut down. *)
C18_ShutdownNeverBlocks ==
    /\ \A c \in Callers :
           (callerPc[c] = "quit_wait") ~> (callerPc[c] = "done" /\ ~appUp)
    /\ [](\A c \in Callers : callerPc[c] = "done" => ~appUp)

\* the caller gave up the wait and shut the application down while the worker sits
\* in a model request of an earlier query, the "quit" still on in_q
C18_Witness ==
    \E c \in Callers :
        /\ callerPc[c] = "done"
        /\ ~appUp
        /\ pc = "ask"
        /\ ~AckPut
        /\ \E k \in 1..Len(in_q) : in_q[k].text = QUIT

\* the same with a worker that died at startup
C18_WitnessDead ==
    \E c \in Callers :
        /\ callerPc[c] = "done"
        /\ ~appUp
        /\ pc = "terminated"
        /\ StartupFailed
        /\ got[c] = <<>>

----------------------------------------------------------------------------
(* C19 *)

\* positions of the current query's assistant turns that hold tool requests
ToolRounds == {i \in hist.start..Len(messages) : messages[i].kind = "tool_use"}

\* the query asked for no tool name more than twice
NoNameOverTwice == \A n \in ToolNames : Cardinality(RequestsFor(n)) <= SUPPRESS_AFTER

(* C19: the plain path. When process_query returns on a text-only reply of
   the loop (round n, not the forced summary) and the query asked for no tool
   name more than twice, then nothing was suppressed, the query's part of the
   history holds no steering and no directive turn, the Tool Invoker was
   called once for every request, in request order, the model was asked n
   times, n being one more than the number of rounds that held tool requests,
   and the text returned and recorded is that last reply's text, stripped, or
   "(empty response)" when it is blank. *)
C19_PlainPath ==
    (pc = "put_response" /\ hist.forcedReqs = 0 /\ NoNameOverTwice) =>
        /\ \A j \in 1..Len(hist.requested) : hist.requested[j].id \notin SuppressedIds
        /\ \A i \in hist.start..Len(messages) :
               messages[i] \notin {UserText(STEERING), UserText(DIRECTIVE)}
        /\ hist.invoked = [j \in 1..Len(hist.requested) |-> hist.requested[j].id]
        /\ hist.modelReqs = Cardinality(ToolRounds) + 1
        /\ hist.modelReqs = loop_idx
        /\ loop_idx <= MAX_TOOL_LOOPS
        /\ RequestIdsIn(hist.reply[1]) = {}
        /\ IF AllBlank(TextOf(hist.reply[1]))
           THEN result = EMPTY_RESPONSE
           ELSE IsStripOf(result, TextOf(hist.reply[1]))
        /\ messages[Len(messages)] = AssistantText(result)

\* the example: search_drugs in round 1, get_drug_properties in round 2, text in
\* round 3: three model requests, two invocations, nothing suppressed
C19_Witness ==
    /\ pc = "put_response"
    /\ hist.forcedReqs = 0
    /\ Len(hist.requested) = 2
    /\ hist.requested[1].name = SEARCH /\ hist.requested[1].round = 1
    /\ hist.requested[2].name = PROPS /\ hist.requested[2].round = 2
    /\ hist.modelReqs = 3
    /\ Len(hist.invoked) = 2
    /\ SuppressedIds = {}
    /\ result = <<"a">>

\* two search_drugs requests in one batch and two get_drug_properties requests, all
\* invoked: every name at its limit
C19_WitnessLimit ==
    /\ pc = "put_response"
    /\ hist.forcedReqs = 0
    /\ NoNameOverTwice
    /\ Cardinality(RequestsFor(SEARCH)) = 2
    /\ Cardinality(RequestsFor(PROPS)) = 2
    /\ Len(hist.invoked) = 4

----------------------------------------------------------------------------
(* C20 *)

\* the current query's search_drugs requests for which the Tool Invoker was called
SearchesInvoked ==
    {j \in RequestsFor(SEARCH) : hist.requested[j].id \in InvokedIds}

(* C20: within one query the Tool Invoker is called for search_drugs at most
   twice, however the requests are spread over rounds and batches; the counter
   has been advanced for the whole round when the first decision of the round
   is taken, so every search_drugs request that was invoked belongs to a round
   by whose end the query had asked for search_drugs at most twice. *)
C20_SearchInvokedAtMostTwice ==
    /\ Cardinality(SearchesInvoked) <= SUPPRESS_AFTER
    /\ \A j \in SearchesInvoked : SearchesThroughRound(j) <= SUPPRESS_AFTER
    /\ \A k, l \in 1..Len(hist.invoked) : hist.invoked[k] = hist.invoked[l] => k = l

\* two search_drugs requests of one batch were invoked and a later one suppressed
C20_Witness ==
    /\ Cardinality(SearchesInvoked) = 2
    /\ \E j, k \in SearchesInvoked :
           j /= k /\ hist.requested[j].round = hist.requested[k].round
    /\ \E j \in RequestsFor(SEARCH) : hist.requested[j].id \in SuppressedIds

\* one request invoked in round 1, then a batch of two of which neither is invoked:
\* five requests, one invocation
C20_WitnessBatch ==
    /\ Cardinality(SearchesInvoked) = 1
    /\ Cardinality(RequestsFor(SEARCH)) >= 5
    /\ pc = "put_response"

----------------------------------------------------------------------------
(* C21: no terminated engine holds an open provider connection. run_chatbot
   ends only after a "quit" was acknowledged or after startup failed (the
   config could not be loaded, or connecting a provider raised), and on each
   of these paths the exit stack is empty when it has ended: every transport
   and session entered so far, those of a provider whose connection failed
   half-way included, has been released. Until then nothing is released: every
   session the engine registered still has its transport and its session on
   the exit stack. *)
C21_TerminatedHoldsNothing ==
    /\ pc = "terminated" =>
           /\ exit_stack = <<>>
           /\ AckPut \/ StartupFailed
    /\ pc /= "terminated" =>
           \A s \in Range(sessions) :
               Transport(s) \in Range(exit_stack) /\ Session(s) \in Range(exit_stack)

\* startup failed at the second provider with the first provider connected: the
\* engine has ended without a "quit" and holds nothing
C21_Witness ==
    /\ pc = "terminated"
    /\ hist.startup = "connect"
    /\ Len(sessions) = 1
    /\ Len(config) = 2
    /\ exit_stack = <<>>
    /\ ~AckPut

\* the transport of the second provider is open, its session is not, and the
\* finally block is about to run
C21_WitnessHalfOpen ==
    /\ pc = "closing"
    /\ hist.startup = "connect"
    /\ Len(exit_stack) = 3
    /\ exit_stack[3] = Transport(config[2])

====
